---- MODULE Spec2Model ----
(***************************************************************************)
(* libchrome_tools/update_libchrome.py: clean the output tree, copy the     *)
(* tracked, non-blacklisted files from the Chromium checkout, apply the     *)
(* patch files.                                                             *)
(*                                                                          *)
(* A path is a sequence of tokens: path components separated by the token   *)
(* "/".  A glob pattern is a sequence of the same tokens in which "*" is    *)
(* the wildcard.  A file name with an extension is split in two tokens      *)
(* where the split matters (<<"fix", ".patch">>).                           *)
(***************************************************************************)
EXTENDS Integers, Sequences, FiniteSets, TLC

\* Bounds of the model.
MaxTracked == 2     \* paths in a `git ls-tree` listing
MaxOldFiles == 2    \* files in the output tree before the run
MaxPatches == 2     \* entries of the patch directory
MaxCleanRuns == 1   \* extra calls of the cleaner (SpecCleanTwice)

--------------------------------------------------------------------------
\* Paths of the model's universe.

P_Android_bp == <<"Android.bp">>
P_BUILD_gn == <<"BUILD.gn">>
P_base_OWNERS == <<"base", "/", "OWNERS">>
P_features_h == <<"base", "/", "allocator", "/", "features.h">>
P_foo_cc == <<"base", "/", "foo.cc">>
P_tool == <<"libchrome_tools", "/", "update_libchrome.py">>
P_zlib == <<"third_party", "/", "zlib", "/", "x.c">>
P_git_HEAD == <<".git", "/", "HEAD">>
P_out_obj == <<"out", "/", "a.o">>

\* The paths a repository can track, in the order `git ls-tree` lists them
\* (byte order of the full name).
GitOrder ==
  << P_Android_bp, P_BUILD_gn, P_base_OWNERS, P_features_h, P_foo_cc,
     P_tool, P_zlib >>

Range(s) == {s[k] : k \in 1..Len(s)}

Trackable == Range(GitOrder)

\* Every file path of the output tree.
FsPaths == Trackable \cup {P_git_HEAD, P_out_obj}

--------------------------------------------------------------------------
\* fnmatch.translate and re.match.

IMPORT_BLACKLIST ==
  << <<"Android.bp">>,
     <<"MODULE_LICENSE_BSD">>,
     <<"NOTICE">>,
     <<"OWNERS">>,
     <<"SConstruct">>,
     <<"testrunner.cc">>,
     <<"libchrome_tools", "/", "*">>,
     <<"base", "/", "allocator", "/", "features.h">>,
     <<"base", "/", "debug", "/", "debugging_flags.h">>,
     <<"base", "/", "third_party", "/", "libevent", "/", "*">>,
     <<"base", "/", "third_party", "/", "symbolize", "/", "*">>,
     <<"testing", "/", "gmock", "/", "*">>,
     <<"testing", "/", "gtest", "/", "*">>,
     <<"third_party", "/", "*">> >>

\* A blacklist that forgets the tool's own directory.
IMPORT_BLACKLIST_no_tools ==
  SelectSeq(IMPORT_BLACKLIST, LAMBDA pat : pat[1] # "libchrome_tools")

\* The blacklist as the filter reads it.
Blacklist == IMPORT_BLACKLIST

\* fnmatch.translate(pattern): '*' becomes '.*' (with the DOTALL flag, so it
\* crosses '/'), every other token is escaped to a literal, and the whole is
\* closed by \Z.
translate(pattern) ==
  [k \in 1..(Len(pattern) + 1) |->
     IF k = Len(pattern) + 1 THEN [t |-> "Z"]
     ELSE IF pattern[k] = "*" THEN [t |-> "dotstar"]
     ELSE [t |-> "lit", c |-> pattern[k]]]

\* re.match of one alternative: the regular expression matches a prefix of
\* the string, from its start.
RECURSIVE re_match(_, _)
re_match(regex, s) ==
  IF regex = <<>> THEN TRUE
  ELSE LET r == Head(regex) IN
       CASE r.t = "Z" -> s = <<>> /\ re_match(Tail(regex), s)
         [] r.t = "lit" ->
              s # <<>> /\ Head(s) = r.c /\ re_match(Tail(regex), Tail(s))
         [] r.t = "dotstar" ->
              \E k \in 0..Len(s) :
                re_match(Tail(regex), SubSeq(s, k + 1, Len(s)))

\* re.search of one alternative: the match may start anywhere.
re_search(regex, s) ==
  \E k \in 0..Len(s) : re_match(regex, SubSeq(s, k + 1, Len(s)))

\* exclude_pattern.match(filepath): the alternation of the translated
\* patterns, matched from the start of the path.
exclude_pattern_search(filepath) ==
  \E k \in 1..Len(Blacklist) : re_search(translate(Blacklist[k]), filepath)

exclude_pattern_match(filepath) ==
  \E k \in 1..Len(Blacklist) : re_match(translate(Blacklist[k]), filepath)

\* The list comprehension of _find_target_files over the listing's lines.
find_target_files(listing) ==
  SelectSeq(listing, LAMBDA filepath : ~exclude_pattern_match(filepath))

--------------------------------------------------------------------------
\* The file system under the output root.

Absent == <<"absent">>
OldContent(p) == <<"old", p>>
ChromiumContent(p) == <<"chromium", p>>

\* os.path.dirname of a relative path: <<>> is the output root itself.
dirname(p) == SubSeq(p, 1, Len(p) - 2)

\* The directories os.makedirs(dirname(p)) creates below the root.
Ancestors(p) == {SubSeq(p, 1, k) : k \in {j \in 1..(Len(p) - 2) : j % 2 = 1}}

\* The files that can be in the output tree before the run.
OldPaths == {P_Android_bp, P_features_h, P_tool, P_git_HEAD, P_out_obj}

\* The files the Chromium checkout may lack.
UpstreamMayLack == {P_foo_cc}

\* The patch directory: each entry with the path its diff names.
PatchEntries == {<<"fix", ".patch">>, <<"buildflag_header", ".patch">>, <<"README">>}

\* The path a patch file's diff header names, and whether the diff creates
\* the file (/dev/null as its old side) or edits it.
PatchHeader(n) ==
  IF n = <<"buildflag_header", ".patch">>
  THEN [file |-> <<"a", "/">> \o P_features_h, creates |-> TRUE]
  ELSE [file |-> <<"a", "/">> \o P_foo_cc, creates |-> FALSE]

\* A listing of the tracked paths of a repository: GitOrder restricted to S.
Listing(S) == SelectSeq(GitOrder, LAMBDA p : p \in S)

\* What another repository, given as the output root, tracks.
OtherListings == {Listing({P_BUILD_gn, P_zlib})}

VARIABLES
  libchromeListing,      \* git ls-tree of _LIBCHROME_ROOT's HEAD
  outputIsLibchromeRoot, \* args.output_root is _LIBCHROME_ROOT (the default)
  outputListing,         \* git ls-tree of the output root's HEAD
  chromium_root,         \* [given, lacks]: args.chromium_root and its tree
  patch_dir,             \* the entries of args.patch_dir
  rootKind,              \* what args.output_root is: "absent", "file", "dir"
  files,                 \* content of every file path under the output root
  dirs,                  \* directories under the output root
  stage,                 \* position in main: index of the running call
  exitCode,              \* -1 while the process runs
  cleanPc, importPc, patchPc,  \* "idle", "loop", "done" of each call
  before,                \* the output tree when the cleaner was entered
  cleanTodo,             \* entries of os.listdir still to visit
  target_files,          \* the list _find_target_files returned
  copied,                \* how many of them have been copied
  patchTodo,             \* patch files glob.iglob has not yielded yet
  patchLog,              \* the `patch -p1` processes run, with their result
  cleanRuns              \* completed calls of the cleaner

vars ==
  << libchromeListing, outputIsLibchromeRoot, outputListing, chromium_root,
     patch_dir, rootKind, files, dirs, stage, exitCode, cleanPc, importPc,
     patchPc, before, cleanTodo, target_files, copied, patchTodo, patchLog,
     cleanRuns >>

env == << libchromeListing, outputIsLibchromeRoot, outputListing,
          chromium_root, patch_dir >>

SubsetsUpTo(S, n) == {T \in SUBSET S : Cardinality(T) <= n}

Init ==
  /\ \E S \in SubsetsUpTo(Trackable, MaxTracked) : libchromeListing = Listing(S)
  /\ outputIsLibchromeRoot \in BOOLEAN
  /\ IF outputIsLibchromeRoot
     THEN outputListing = libchromeListing
     ELSE outputListing \in OtherListings
  /\ chromium_root \in
       {[given |-> FALSE, lacks |-> {}]} \cup
       {[given |-> TRUE, lacks |-> L] : L \in SUBSET UpstreamMayLack}
  /\ patch_dir \in SubsetsUpTo(PatchEntries, MaxPatches)
  /\ rootKind \in (IF outputIsLibchromeRoot THEN {"dir"}
                   ELSE {"absent", "file", "dir"})
  /\ \E S \in SubsetsUpTo(OldPaths, MaxOldFiles) :
       LET present == IF rootKind # "dir" THEN {}
                      ELSE S \cup (IF outputIsLibchromeRoot THEN {P_tool} ELSE {})
       IN /\ rootKind # "dir" => S = {}
          /\ files = [p \in FsPaths |->
                        IF p \in present THEN OldContent(p) ELSE Absent]
          /\ dirs = UNION {Ancestors(p) : p \in present}
  /\ stage = 1
  /\ exitCode = -1
  /\ cleanPc = "idle" /\ importPc = "idle" /\ patchPc = "idle"
  /\ before = [rootKind |-> rootKind, files |-> files, dirs |-> dirs]
  /\ cleanTodo = {}
  /\ target_files = <<>>
  /\ copied = 0
  /\ patchTodo = {}
  /\ patchLog = <<>>
  /\ cleanRuns = 0

--------------------------------------------------------------------------
\* main: the three calls, in this order.

main_import_first == <<"import", "clean", "patch">>

main == <<"clean", "import", "patch">>

Running == exitCode = -1

Stage == IF stage \in 1..Len(main) THEN main[stage] ELSE "return"

\* An unhandled exception: the interpreter exits with status 1.
Raise == exitCode' = 1

--------------------------------------------------------------------------
\* _clean_existing_dir

\* os.listdir(output_root): the names of the root's immediate children.
listdir ==
  {p[1] : p \in {q \in FsPaths : files[q] # Absent}} \cup {d[1] : d \in dirs}

isdir(path) == <<path>> \in dirs

Preserved_git_only == {".git"}

Preserved == {".git", "libchrome_tools"}

\* The files after shutil.rmtree(output_root): the whole root is emptied.
rmtree_files_output_root(path) == [p \in FsPaths |-> Absent]

\* The tree after shutil.rmtree(output_root/path).
rmtree_files(path) ==
  [p \in FsPaths |-> IF p[1] = path THEN Absent ELSE files[p]]

rmtree_dirs(path) == {d \in dirs : d[1] # path}

\* os.makedirs(output_root, exist_ok=True) and os.listdir.
clean_existing_dir_call ==
  /\ Running /\ Stage = "clean" /\ cleanPc = "idle"
  /\ rootKind # "file"
  /\ before' = [rootKind |-> rootKind, files |-> files, dirs |-> dirs]
  /\ rootKind' = "dir"
  /\ cleanTodo' = listdir
  /\ cleanPc' = "loop"
  /\ UNCHANGED << env, files, dirs, stage, exitCode, importPc, patchPc,
                  target_files, copied, patchTodo, patchLog, cleanRuns >>

\* os.makedirs raises FileExistsError: the output root is a file.
clean_existing_dir_makedirs_error ==
  /\ Running /\ Stage = "clean" /\ cleanPc = "idle"
  /\ rootKind = "file"
  /\ before' = [rootKind |-> rootKind, files |-> files, dirs |-> dirs]
  /\ Raise
  /\ UNCHANGED << env, rootKind, files, dirs, stage, cleanPc, importPc,
                  patchPc, cleanTodo, target_files, copied, patchTodo,
                  patchLog, cleanRuns >>

\* An entry that is no directory, or a preserved one: continue.
clean_existing_dir_continue ==
  /\ Running /\ Stage = "clean" /\ cleanPc = "loop"
  /\ \E path \in cleanTodo :
       /\ ~isdir(path) \/ path \in Preserved
       /\ cleanTodo' = cleanTodo \ {path}
  /\ UNCHANGED << env, rootKind, files, dirs, stage, exitCode, cleanPc,
                  importPc, patchPc, before, target_files, copied, patchTodo,
                  patchLog, cleanRuns >>

\* The no-op twin of the rmtree step: the directory is skipped, not removed.
clean_existing_dir_rmtree_skipped ==
  /\ Running /\ Stage = "clean" /\ cleanPc = "loop"
  /\ \E path \in cleanTodo :
       /\ isdir(path) /\ path \notin Preserved
       /\ cleanTodo' = cleanTodo \ {path}
  /\ UNCHANGED << env, rootKind, files, dirs, stage, exitCode, cleanPc,
                  importPc, patchPc, before, target_files, copied, patchTodo,
                  patchLog, cleanRuns >>

\* Any other directory: shutil.rmtree.
clean_existing_dir_rmtree ==
  /\ Running /\ Stage = "clean" /\ cleanPc = "loop"
  /\ \E path \in cleanTodo :
       /\ isdir(path) /\ path \notin Preserved
       /\ files' = rmtree_files(path)
       /\ dirs' = rmtree_dirs(path)
       /\ cleanTodo' = cleanTodo \ {path}
  /\ UNCHANGED << env, rootKind, stage, exitCode, cleanPc, importPc, patchPc,
                  before, target_files, copied, patchTodo, patchLog,
                  cleanRuns >>

\* shutil.rmtree raises (permission denied): nothing of the directory is
\* removed, the directories removed before stay removed.
clean_existing_dir_rmtree_error ==
  /\ Running /\ Stage = "clean" /\ cleanPc = "loop"
  /\ \E path \in cleanTodo : isdir(path) /\ path \notin Preserved
  /\ Raise
  /\ UNCHANGED << env, rootKind, files, dirs, stage, cleanPc, importPc,
                  patchPc, before, cleanTodo, target_files, copied, patchTodo,
                  patchLog, cleanRuns >>

clean_existing_dir_return ==
  /\ Running /\ Stage = "clean" /\ cleanPc = "loop"
  /\ cleanTodo = {}
  /\ cleanPc' = "done"
  /\ stage' = stage + 1
  /\ cleanRuns' = cleanRuns + 1
  /\ UNCHANGED << env, rootKind, files, dirs, exitCode, importPc, patchPc,
                  before, cleanTodo, target_files, copied, patchTodo,
                  patchLog >>

\* The cleaner is called once more, right after it returned.
clean_existing_dir_again ==
  /\ Running /\ cleanPc = "done" /\ importPc = "idle"
  /\ cleanRuns <= MaxCleanRuns
  /\ cleanPc' = "idle"
  /\ stage' = stage - 1
  /\ UNCHANGED << env, rootKind, files, dirs, exitCode, importPc, patchPc,
                  before, cleanTodo, target_files, copied, patchTodo,
                  patchLog, cleanRuns >>

--------------------------------------------------------------------------
\* _import_files

\* git ls-tree runs in _LIBCHROME_ROOT, whatever the output root is.
find_target_files_cwd == libchromeListing

import_files_call ==
  /\ Running /\ Stage = "import" /\ importPc = "idle"
  /\ target_files' = find_target_files(find_target_files_cwd)
  /\ copied' = 0
  /\ importPc' = "loop"
  /\ UNCHANGED << env, rootKind, files, dirs, stage, exitCode, cleanPc,
                  patchPc, before, cleanTodo, patchTodo, patchLog,
                  cleanRuns >>

\* subprocess.check_output raises: git fails in _LIBCHROME_ROOT.
find_target_files_error ==
  /\ Running /\ Stage = "import" /\ importPc = "idle"
  /\ Raise
  /\ UNCHANGED << env, rootKind, files, dirs, stage, cleanPc, importPc,
                  patchPc, before, cleanTodo, target_files, copied, patchTodo,
                  patchLog, cleanRuns >>

\* os.makedirs(dirname(target_path), exist_ok=True) succeeds unless the
\* output root is a file.
makedirs_ok == rootKind # "file"

\* os.path.join(chromium_root, filepath) raises TypeError when chromium_root
\* is None; shutil.copy2 raises FileNotFoundError when the source is missing.
copy2_ok(filepath) ==
  chromium_root.given /\ filepath \notin chromium_root.lacks

\* An iteration that creates the parent directories and copies nothing.
import_files_makedirs_only ==
  /\ Running /\ Stage = "import" /\ importPc = "loop"
  /\ copied < Len(target_files)
  /\ LET filepath == target_files[copied + 1] IN
       /\ makedirs_ok /\ copy2_ok(filepath)
       /\ rootKind' = "dir"
       /\ dirs' = dirs \cup Ancestors(filepath)
  /\ copied' = copied + 1
  /\ UNCHANGED << env, files, stage, exitCode, cleanPc, importPc, patchPc,
                  before, cleanTodo, target_files, patchTodo, patchLog,
                  cleanRuns >>

\* One iteration of the loop: makedirs, then copy2.
import_files_copy ==
  /\ Running /\ Stage = "import" /\ importPc = "loop"
  /\ copied < Len(target_files)
  /\ LET filepath == target_files[copied + 1] IN
       /\ makedirs_ok /\ copy2_ok(filepath)
       /\ rootKind' = "dir"
       /\ dirs' = dirs \cup Ancestors(filepath)
       /\ files' = [files EXCEPT ![filepath] = ChromiumContent(filepath)]
  /\ copied' = copied + 1
  /\ UNCHANGED << env, stage, exitCode, cleanPc, importPc, patchPc, before,
                  cleanTodo, target_files, patchTodo, patchLog, cleanRuns >>

\* The failed iteration with its exception swallowed: the loop goes on with
\* the next path.
import_files_copy_error_skipped ==
  /\ Running /\ Stage = "import" /\ importPc = "loop"
  /\ copied < Len(target_files)
  /\ LET filepath == target_files[copied + 1] IN
       /\ ~(makedirs_ok /\ copy2_ok(filepath))
       /\ IF makedirs_ok
          THEN rootKind' = "dir" /\ dirs' = dirs \cup Ancestors(filepath)
          ELSE UNCHANGED << rootKind, dirs >>
  /\ copied' = copied + 1
  /\ UNCHANGED << env, files, stage, exitCode, cleanPc, importPc, patchPc,
                  before, cleanTodo, target_files, patchTodo, patchLog,
                  cleanRuns >>

\* The iteration raises: in makedirs, or in copy2 after makedirs created the
\* parent directories.
import_files_copy_error ==
  /\ Running /\ Stage = "import" /\ importPc = "loop"
  /\ copied < Len(target_files)
  /\ LET filepath == target_files[copied + 1] IN
       /\ ~(makedirs_ok /\ copy2_ok(filepath))
       /\ IF makedirs_ok
          THEN rootKind' = "dir" /\ dirs' = dirs \cup Ancestors(filepath)
          ELSE UNCHANGED << rootKind, dirs >>
  /\ Raise
  /\ UNCHANGED << env, files, stage, cleanPc, importPc, patchPc, before,
                  cleanTodo, target_files, copied, patchTodo, patchLog,
                  cleanRuns >>

import_files_return ==
  /\ Running /\ Stage = "import" /\ importPc = "loop"
  /\ copied = Len(target_files)
  /\ importPc' = "done"
  /\ stage' = stage + 1
  /\ UNCHANGED << env, rootKind, files, dirs, exitCode, cleanPc, patchPc,
                  before, cleanTodo, target_files, copied, patchTodo,
                  patchLog, cleanRuns >>

--------------------------------------------------------------------------
\* _apply_patch_files

\* glob.iglob(os.path.join(patch_root, '*.patch')): the entries whose name
\* matches, in whatever order the directory yields them.
iglob == {n \in patch_dir : re_match(translate(<<"*", ".patch">>), n)}

\* patch -p1: one leading component, and its separator, stripped from the
\* path the diff names.
strip1(file) == SubSeq(file, 3, Len(file))

patch_target(n) == strip1(PatchHeader(n).file)

\* patch exits 0: a diff that edits finds its file, a diff that creates
\* finds none.
patch_applies(n) ==
  IF PatchHeader(n).creates
  THEN files[patch_target(n)] = Absent
  ELSE files[patch_target(n)] # Absent

patched_content(n) ==
  IF PatchHeader(n).creates
  THEN <<"created", n>>
  ELSE <<"patched", n, files[patch_target(n)]>>

apply_patch_files_call ==
  /\ Running /\ Stage = "patch" /\ patchPc = "idle"
  /\ patchTodo' = iglob
  /\ patchPc' = "loop"
  /\ UNCHANGED << env, rootKind, files, dirs, stage, exitCode, cleanPc,
                  importPc, before, cleanTodo, target_files, copied, patchLog,
                  cleanRuns >>

\* subprocess.check_call(['patch', '-p1']) returns: exit status 0.
apply_patch_files_check_call ==
  /\ Running /\ Stage = "patch" /\ patchPc = "loop"
  /\ \E n \in patchTodo :
       /\ patch_applies(n)
       /\ files' = [files EXCEPT ![patch_target(n)] = patched_content(n)]
       /\ dirs' = dirs \cup Ancestors(patch_target(n))
       /\ patchLog' = Append(patchLog, [patch |-> n, ok |-> TRUE])
       /\ patchTodo' = patchTodo \ {n}
  /\ UNCHANGED << env, rootKind, stage, exitCode, cleanPc, importPc, patchPc,
                  before, cleanTodo, target_files, copied, cleanRuns >>

\* subprocess.call in place of check_call: the exit status is dropped and
\* the loop goes on.
apply_patch_files_status_ignored ==
  /\ Running /\ Stage = "patch" /\ patchPc = "loop"
  /\ \E n \in patchTodo :
       /\ ~patch_applies(n)
       /\ patchLog' = Append(patchLog, [patch |-> n, ok |-> FALSE])
       /\ patchTodo' = patchTodo \ {n}
  /\ UNCHANGED << env, rootKind, files, dirs, stage, exitCode, cleanPc,
                  importPc, patchPc, before, cleanTodo, target_files, copied,
                  cleanRuns >>

\* subprocess.check_call raises CalledProcessError: patch exited non-zero.
apply_patch_files_error ==
  /\ Running /\ Stage = "patch" /\ patchPc = "loop"
  /\ \E n \in patchTodo :
       /\ ~patch_applies(n)
       /\ patchLog' = Append(patchLog, [patch |-> n, ok |-> FALSE])
       /\ patchTodo' = patchTodo \ {n}
  /\ Raise
  /\ UNCHANGED << env, rootKind, files, dirs, stage, cleanPc, importPc,
                  patchPc, before, cleanTodo, target_files, copied,
                  cleanRuns >>

apply_patch_files_return ==
  /\ Running /\ Stage = "patch" /\ patchPc = "loop"
  /\ patchTodo = {}
  /\ patchPc' = "done"
  /\ stage' = stage + 1
  /\ UNCHANGED << env, rootKind, files, dirs, exitCode, cleanPc, importPc,
                  before, cleanTodo, target_files, copied, patchTodo,
                  patchLog, cleanRuns >>

\* main returns: the interpreter exits with status 0.
main_return ==
  /\ Running /\ Stage = "return"
  /\ exitCode' = 0
  /\ UNCHANGED << env, rootKind, files, dirs, stage, cleanPc, importPc,
                  patchPc, before, cleanTodo, target_files, copied, patchTodo,
                  patchLog, cleanRuns >>

--------------------------------------------------------------------------

Next ==
  \/ clean_existing_dir_call
  \/ clean_existing_dir_makedirs_error
  \/ clean_existing_dir_continue
  \/ clean_existing_dir_rmtree
  \/ clean_existing_dir_rmtree_error
  \/ clean_existing_dir_return
  \/ import_files_call
  \/ find_target_files_error
  \/ import_files_copy
  \/ import_files_copy_error
  \/ import_files_return
  \/ apply_patch_files_call
  \/ apply_patch_files_check_call
  \/ apply_patch_files_error
  \/ apply_patch_files_return
  \/ main_return

Spec == Init /\ [][Next]_vars

\* The cleaner alone, called again after it returned.
NextCleanTwice ==
  \/ clean_existing_dir_call
  \/ clean_existing_dir_makedirs_error
  \/ clean_existing_dir_continue
  \/ clean_existing_dir_rmtree
  \/ clean_existing_dir_rmtree_error
  \/ clean_existing_dir_return
  \/ clean_existing_dir_again

SpecCleanTwice == Init /\ [][NextCleanTwice]_vars

--------------------------------------------------------------------------
\* Properties.

PreservedNames == {".git", "libchrome_tools"}

TopDirs(D) == {d \in D : Len(d) = 1}

\* A path matches a pattern as a whole: a pattern without wildcard is the
\* path itself; a pattern ending in the wildcard matches every path that
\* begins with the tokens before it.
WholePathMatch(pat, p) ==
  IF pat[Len(pat)] = "*"
  THEN /\ Len(p) >= Len(pat) - 1
       /\ SubSeq(p, 1, Len(pat) - 1) = SubSeq(pat, 1, Len(pat) - 1)
  ELSE p = pat

Blacklisted(p) ==
  \E k \in 1..Len(IMPORT_BLACKLIST) : WholePathMatch(IMPORT_BLACKLIST[k], p)

\* C1: the target file list is the listing of _LIBCHROME_ROOT, in listing
\* order, without the paths that match a blacklist pattern as a whole path;
\* a path that only ends in a pattern (base/OWNERS against OWNERS) is kept.
C1_TargetFilesAreUnmatchedListing ==
  importPc # "idle" =>
    /\ target_files =
         SelectSeq(libchromeListing, LAMBDA p : ~Blacklisted(p))
    /\ \A k \in 1..Len(target_files) : ~Blacklisted(target_files[k])
    /\ P_base_OWNERS \in Range(libchromeListing)
         => P_base_OWNERS \in Range(target_files)
    /\ P_zlib \notin Range(target_files)

C1_Witness ==
  /\ importPc # "idle"
  /\ libchromeListing = <<P_base_OWNERS, P_zlib>>
  /\ target_files = <<P_base_OWNERS>>

\* C2: when _import_files has returned, every path of the target file list
\* is a file of the output tree, below its created parent directories, with
\* the content of the Chromium tree's file at that path.
C2_ImportedFilesMatchUpstream ==
  (importPc = "done" /\ patchPc = "idle") =>
    \A k \in 1..Len(target_files) :
      LET p == target_files[k] IN
        /\ p \notin chromium_root.lacks
        /\ files[p] = ChromiumContent(p)
        /\ Ancestors(p) \subseteq dirs
        /\ rootKind = "dir"

C2_Witness ==
  /\ importPc = "done" /\ patchPc = "idle"
  /\ target_files = <<P_BUILD_gn, P_foo_cc>>
  /\ files[P_foo_cc] = ChromiumContent(P_foo_cc)
  /\ <<"base">> \in dirs

\* C3: when _clean_existing_dir has returned, the output root is a
\* directory, its immediate child directories are the preserved ones that
\* were there at the call, and nothing is left below any other directory.
C3_CleanerLeavesOnlyPreservedDirs ==
  (cleanPc = "done" /\ importPc = "idle") =>
    /\ rootKind = "dir"
    /\ TopDirs(dirs) = {d \in TopDirs(before.dirs) : d[1] \in PreservedNames}
    /\ \A d \in dirs : d[1] \in PreservedNames
    /\ \A p \in FsPaths :
         (Len(p) > 1 /\ p[1] \notin PreservedNames) => files[p] = Absent

C3_Witness ==
  /\ cleanPc = "done" /\ importPc = "idle"
  /\ before.files[P_out_obj] # Absent
  /\ before.files[P_tool] # Absent
  /\ files[P_out_obj] = Absent
  /\ TopDirs(dirs) = {<<"libchrome_tools">>}

\* C4: no step of the cleaner changes a file directly in the output root or
\* anything of a preserved directory, in any call; a call of the cleaner
\* that follows a completed call changes nothing in the output tree.
C4_CleanerFrame ==
  [][ /\ \A p \in FsPaths :
           (Len(p) = 1 \/ p[1] \in PreservedNames) => files'[p] = files[p]
      /\ {d \in dirs' : d[1] \in PreservedNames}
           = {d \in dirs : d[1] \in PreservedNames}
      /\ cleanRuns >= 1 =>
           (files' = files /\ dirs' = dirs /\ rootKind' = rootKind) ]_vars

C4_Witness ==
  /\ cleanRuns = 2 /\ cleanPc = "done"
  /\ files[P_git_HEAD] = OldContent(P_git_HEAD)
  /\ files[P_Android_bp] = OldContent(P_Android_bp)
  /\ <<".git">> \in dirs

\* C5: the importer starts only when the cleaner has returned, the patcher
\* only when the importer has copied every path of the target file list,
\* and the process exits with 0 only when the three have returned.
C5_StagesInOrder ==
  /\ (importPc # "idle" \/ copied > 0) =>
       (cleanPc = "done" /\ cleanTodo = {})
  /\ (patchPc # "idle" \/ patchLog # <<>>) =>
       (importPc = "done" /\ copied = Len(target_files))
  /\ exitCode = 0 =>
       (cleanPc = "done" /\ importPc = "done" /\ patchPc = "done")

C5_Witness ==
  /\ patchLog # <<>>
  /\ copied = 2
  /\ before.files[P_out_obj] # Absent
  /\ files[P_out_obj] = Absent

\* C6: a patch that fails is the last one run and the process exits with
\* status 1; the files written by the patches applied before it stay as
\* those patches left them.
C6_PatchFailureAborts ==
  \A k \in 1..Len(patchLog) :
    LET n == patchLog[k].patch IN
      /\ ~patchLog[k].ok => (k = Len(patchLog) /\ exitCode = 1)
      /\ patchLog[k].ok =>
           /\ files[patch_target(n)] # Absent
           /\ files[patch_target(n)][1] \in {"created", "patched"}
           /\ files[patch_target(n)][2] = n

C6_Witness ==
  /\ Len(patchLog) = 2
  /\ patchLog[1].ok /\ ~patchLog[2].ok
  /\ exitCode = 1
  /\ files[P_features_h] = <<"created", <<"buildflag_header", ".patch">>>>

\* The target paths whose copy fails: all of them when chromium_root is
\* None, else those the Chromium tree lacks.
FailingCopies ==
  {k \in 1..Len(target_files) :
     ~chromium_root.given \/ target_files[k] \in chromium_root.lacks}

\* C7: the loop never gets past a target path whose copy fails, no patch is
\* run in such a run and it never exits with 0; the step taken at that path
\* exits with status 1; the exit status is 0 only when the cleaner, every
\* copy and every patch succeeded.
C7_CopyFailureAborts ==
  /\ [](importPc # "idle" =>
          \A k \in FailingCopies :
            /\ copied < k
            /\ patchPc = "idle" /\ patchLog = <<>>
            /\ exitCode # 0
            /\ \A j \in k..Len(target_files) :
                 files[target_files[j]] # ChromiumContent(target_files[j]))
  /\ [](exitCode = 0 =>
          /\ cleanPc = "done" /\ importPc = "done" /\ patchPc = "done"
          /\ copied = Len(target_files) /\ FailingCopies = {}
          /\ patchTodo = {}
          /\ \A k \in 1..Len(patchLog) : patchLog[k].ok)
  /\ [][(Running /\ importPc = "loop" /\ (copied + 1) \in FailingCopies)
          => exitCode' = 1]_vars

C7_Witness ==
  /\ exitCode = 1 /\ importPc = "loop"
  /\ chromium_root.given
  /\ target_files = <<P_BUILD_gn, P_foo_cc>>
  /\ copied = 1
  /\ files[P_BUILD_gn] = ChromiumContent(P_BUILD_gn)
  /\ patch_dir # {}

\* C8: the target file list is the filtered listing of the output root's
\* repository, also when the output root is not _LIBCHROME_ROOT.
C8_TargetFilesFromOutputTree ==
  importPc # "idle" => target_files = find_target_files(outputListing)

\* C9: when the cleaner and the importer have returned, a file below a
\* directory that is not preserved is a target path with the Chromium
\* content, so a tracked, blacklisted path there is absent; a blacklisted
\* file directly in the root has the content it had before the run.
C9_OnlyImportedFilesBelowCleanedDirs ==
  (importPc = "done" /\ patchPc = "idle") =>
    /\ \A p \in FsPaths :
         (Len(p) > 1 /\ p[1] \notin PreservedNames /\ files[p] # Absent) =>
           (p \in Range(target_files) /\ files[p] = ChromiumContent(p))
    /\ files[P_features_h] = Absent /\ files[P_zlib] = Absent
    /\ \A p \in FsPaths :
         (Len(p) = 1 /\ Blacklisted(p)) => files[p] = before.files[p]

C9_Witness ==
  /\ importPc = "done" /\ patchPc = "idle"
  /\ P_features_h \in Range(libchromeListing)
  /\ before.files[P_features_h] = OldContent(P_features_h)
  /\ files[P_features_h] = Absent
  /\ copied = 1
  /\ files[P_Android_bp] = OldContent(P_Android_bp)

\* C10: no target path lies below .git or libchrome_tools, and up to the
\* return of the importer the files and directories below the two are the
\* ones of before the run.
C10_ImporterKeepsPreservedDirs ==
  /\ \A k \in 1..Len(target_files) : target_files[k][1] \notin PreservedNames
  /\ patchPc = "idle" =>
       /\ \A p \in FsPaths :
            p[1] \in PreservedNames => files[p] = before.files[p]
       /\ {d \in dirs : d[1] \in PreservedNames}
            = {d \in before.dirs : d[1] \in PreservedNames}

C10_Witness ==
  /\ importPc = "done"
  /\ libchromeListing = <<P_foo_cc, P_tool>>
  /\ copied = 1
  /\ files[P_foo_cc] = ChromiumContent(P_foo_cc)
  /\ files[P_tool] = OldContent(P_tool)

====
